---- MODULE Spec2Model ----
(***************************************************************************)
(* OPTICS ordering (optics) and hierarchical cluster extraction            *)
(* (hierarchical_extraction) of sklearn/cluster/optics_.py.                *)
(*                                                                         *)
(* numpy arrays are functions over 0..n-1, Python lists are sequences      *)
(* (element k of a list is list[k+1]).  Distances and reachabilities are   *)
(* small non-negative integers plus Inf; products with the ratio           *)
(* parameters 0.75, 0.4 and 0.1 are compared by cross-multiplication,      *)
(* which agrees with IEEE doubles on these small integers.                 *)
(***************************************************************************)
EXTENDS Integers, Sequences, FiniteSets, TLC

\* ---- bounds of the model
MaxN == 3
MaxDist == 3
MaxLen == 5
MaxR == 2
MaxM == 2

\* ---- program constants
Inf == 1000
NoSplit == -1000
SigNum == 3
SigDen == 4
SimNum == 2
SimDen == 5
ReachNum == 1
ReachDen == 10

VARIABLES
  n, dist, eps, min_samples, extraction,
  ordering, core_distances, reachability_distances, seeds, i, cdist_calls,
  min_cluster_size, R, L, nodes, leaves, stack, labels,
  pc, err, ret

vars == <<n, dist, eps, min_samples, extraction,
          ordering, core_distances, reachability_distances, seeds, i,
          cdist_calls, min_cluster_size, R, L, nodes, leaves, stack, labels,
          pc, err, ret>>

opticsIn == <<n, dist, eps, min_samples, extraction>>
opticsWork == <<ordering, core_distances, reachability_distances, seeds, i,
                cdist_calls>>
extWork == <<R, L, nodes, leaves, stack, labels>>

\* ---- generic helpers
Range0(k) == 0 .. (k - 1)
Max2(a, b) == IF a >= b THEN a ELSE b
Min2(a, b) == IF a <= b THEN a ELSE b
Last(s) == s[Len(s)]
Front(s) == SubSeq(s, 1, Len(s) - 1)
SeqRange(s) == {s[k] : k \in 1 .. Len(s)}

\* [0, 1, ..., k-1] as a list
RangeList(k) == [j \in 1 .. k |-> j - 1]

\* marker of a cell of np.ndarray(len(X)) that was never assigned
Uninit == -1

\* what such a cell can hold when it is read
GarbageVals == (0 .. MaxDist) \cup {Inf}

\* list.remove(x): drops the first occurrence of x
ListRemove(s, x) ==
  LET k == CHOOSE k \in 1 .. Len(s) : s[k] = x /\ \A j \in 1 .. (k - 1) : s[j] # x
  IN SubSeq(s, 1, k - 1) \o SubSeq(s, k + 1, Len(s))

\* a wrong removal: pops the head of the list instead of the element x
ListRemoveHead(s, x) == Tail(s)

\* seeds.remove(i)
SeedsRemove(s, x) == ListRemove(s, x)

\* insert v into the ascending sequence s, after the elements equal to it
RECURSIVE InsertSorted(_, _)
InsertSorted(s, v) ==
  IF s = << >> THEN <<v>>
  ELSE IF Last(s) <= v THEN Append(s, v)
  ELSE Append(InsertSorted(Front(s), v), Last(s))

\* np.sort(D): the values of the array D (length k) in ascending order
RECURSIVE NpSort(_, _)
NpSort(D, k) ==
  IF k = 0 THEN << >> ELSE InsertSorted(NpSort(D, k - 1), D[k - 1])

\* D = cdist([X[i]], X).reshape(len(X)): the distance row of point p
DistRow(p) == [j \in Range0(n) |-> dist[p][j]]

\* neighbors = seeds_array[np.where(D[seeds] <= eps)[0]], as a set of indices
Neighbors(D, s) == {s[k] : k \in {k \in 1 .. Len(s) : D[s[k]] <= eps}}

\* reachability_distances[neighbors] = np.maximum(cd, d)
NewReach(reach, D, core_dist, nb) ==
  [j \in Range0(n) |-> IF j \in nb THEN Max2(core_dist, D[j]) ELSE reach[j]]

\* np.argmin(reachability_distances[seeds]): first position of the minimum
ArgminSeeds(reach, s) ==
  CHOOSE k \in 1 .. Len(s) :
    /\ \A j \in 1 .. Len(s) : reach[s[k]] <= reach[s[j]]
    /\ \A j \in 1 .. (k - 1) : reach[s[j]] > reach[s[k]]

\* str.lower() on the extraction names of the model
Lower(e) == IF e = "Hierarchical" THEN "hierarchical" ELSE e

\* type(extraction) is str
IsStr(e) == e # "#int"

EXTRACTION_FUNCTIONS == {"hierarchical"}

ExtractionArgs == {"hierarchical", "Hierarchical", "unknown", "#int"}

\* unordered pairs of distinct points
Pairs(k) == {p \in Range0(k) \X Range0(k) : p[1] < p[2]}

\* a symmetric distance matrix with zero diagonal from the pair distances u
Matrix(k, u) ==
  [a \in Range0(k) |->
    [b \in Range0(k) |->
      IF a = b THEN 0 ELSE u[<<Min2(a, b), Max2(a, b)>>]]]

\* cdist computes Euclidean distances, which obey the triangle inequality
Triangle(k, d) ==
  \A a, b, c \in Range0(k) : d[a][c] <= d[a][b] + d[b][c]

EpsVals == (0 .. MaxDist) \cup {Inf}

\* ---- optics(): state before the call
Init ==
  /\ n \in 1 .. MaxN
  /\ \E u \in [Pairs(n) -> 0 .. MaxDist] :
       dist = Matrix(n, u) /\ Triangle(n, dist)
  /\ eps \in EpsVals
  /\ min_samples \in 0 .. MaxN
  /\ extraction \in ExtractionArgs
  /\ ordering = << >>
  /\ core_distances = << >>
  /\ reachability_distances = << >>
  /\ seeds = << >>
  /\ i = 0
  /\ cdist_calls = 0
  /\ min_cluster_size = 0
  /\ R = << >>
  /\ L = << >>
  /\ nodes = << >>
  /\ leaves = << >>
  /\ stack = << >>
  /\ labels = << >>
  /\ pc = "start"
  /\ err = "none"
  /\ ret = << >>

\* lines 205-213: allocation of the arrays, seeds = range(n), i = 0
Begin ==
  /\ pc = "start"
  /\ ordering' = << >>
  /\ core_distances' = [j \in Range0(n) |-> Uninit]
  /\ reachability_distances' = [j \in Range0(n) |-> Inf]
  /\ seeds' = RangeList(n)
  /\ i' = 0
  /\ pc' = "loop"
  /\ UNCHANGED <<opticsIn, cdist_calls, min_cluster_size, extWork, err, ret>>

\* lines 214-237: one iteration of the ordering loop
OpticsLoop ==
  /\ pc = "loop"
  /\ Len(seeds) > 1
  /\ LET seeds1 == SeedsRemove(seeds, i)
         D == DistRow(i)
     IN /\ seeds' = seeds1
        /\ ordering' = Append(ordering, i)
        /\ cdist_calls' = cdist_calls + 1
        /\ IF min_samples >= n
           THEN \* np.sort(D)[min_samples] is out of range
                /\ pc' = "raised"
                /\ err' = "IndexError"
                /\ UNCHANGED <<core_distances, reachability_distances, i>>
           ELSE LET core_dist == NpSort(D, n)[min_samples + 1]
                    nb == Neighbors(D, seeds1)
                    reach1 == NewReach(reachability_distances, D, core_dist, nb)
                IN /\ core_distances' = [core_distances EXCEPT ![i] = core_dist]
                   /\ IF core_dist <= eps
                      THEN /\ reachability_distances' = reach1
                           /\ i' = seeds1[ArgminSeeds(reach1, seeds1)]
                      ELSE /\ reachability_distances' = reachability_distances
                           /\ i' = seeds1[1]
                   /\ UNCHANGED <<pc, err>>
  /\ UNCHANGED <<opticsIn, min_cluster_size, extWork, ret>>

\* lines 238-241: the last point and the reachability of the first
AddLast ==
  /\ pc = "loop"
  /\ Len(seeds) <= 1
  /\ ordering' = Append(ordering, seeds[1])
  /\ reachability_distances' = [reachability_distances EXCEPT ![0] = 0]
  /\ pc' = "dispatch"
  /\ UNCHANGED <<opticsIn, core_distances, seeds, i, cdist_calls,
                 min_cluster_size, extWork, err, ret>>

\* lines 243-252: choice of the extraction function
Dispatch ==
  /\ pc = "dispatch"
  /\ IF IsStr(extraction)
     THEN IF Lower(extraction) \in EXTRACTION_FUNCTIONS
          THEN /\ min_cluster_size' = min_samples
               /\ pc' = "ext_start"
               /\ err' = err
          ELSE /\ pc' = "raised"
               /\ err' = "ValueError"
               /\ UNCHANGED min_cluster_size
     ELSE /\ pc' = "raised"
          /\ err' = "TypeError"
          /\ UNCHANGED min_cluster_size
  /\ UNCHANGED <<opticsIn, opticsWork, extWork, ret>>

\* ---- hierarchical_extraction()

\* start (or stop) a of the Python slice x[a:b] of an array of length n
SliceBound(a) == IF a < 0 THEN Max2(a + n, 0) ELSE Min2(a, n)

\* the indices selected by the Python slice x[a:b] of an array of length n
SliceIdx(a, b) == SliceBound(a) .. (SliceBound(b) - 1)

\* x[j] with an integer j is defined for -n <= j < n; negative j counts from
\* the end
IndexOK(j) == -n <= j /\ j < n
PyIdx(j) == IF j < 0 THEN j + n ELSE j

\* R[x] for a position x of the candidate list
RAt(Rr, x) == Rr[PyIdx(x)]

\* np.argmax(R[a:b]): offset, within the slice, of the first maximum
Argmax(Rr, a, b) ==
  LET S == SliceIdx(a, b)
      k == CHOOSE k \in S :
             \A j \in S : Rr[k] >= Rr[j] /\ (j < k => Rr[j] < Rr[k])
  IN k - SliceBound(a)

\* line 58: R = [reachability_distances[i] for i in ordering]
PlotOf(ord, reach) == [k \in Range0(n) |-> reach[ord[k + 1]]]

\* line 64: the test of the head rule for loop index j
HeadTest(Rr, m, j) == Argmax(Rr, 0, j + m + 1) = j

\* line 66: the test of the tail rule for loop index j
TailTest(Rr, m, j) == Argmax(Rr, n - 2 * m + j, n) = j

\* line 69: the test of the interior rule for position j
InteriorTest(Rr, m, j) == Argmax(Rr, j - m, j + m + 1) = m

\* lines 63-67: iterations 0 .. k-1 of the first loop
RECURSIVE BoundaryMaxima(_, _, _)
BoundaryMaxima(Rr, m, k) ==
  IF k <= 0 THEN << >>
  ELSE LET j == k - 1
       IN BoundaryMaxima(Rr, m, j)
            \o (IF HeadTest(Rr, m, j) THEN <<j>> ELSE << >>)
            \o (IF TailTest(Rr, m, j) THEN <<n - m + j>> ELSE << >>)

\* lines 68-70: iterations m .. k-1 of the second loop
RECURSIVE InteriorMaxima(_, _, _)
InteriorMaxima(Rr, m, k) ==
  IF k <= m THEN << >>
  ELSE LET j == k - 1
       IN InteriorMaxima(Rr, m, j)
            \o (IF InteriorTest(Rr, m, j) THEN <<j>> ELSE << >>)

\* lines 62-70: the candidate list
LocalMaxima(Rr, m) == BoundaryMaxima(Rr, m, m) \o InteriorMaxima(Rr, m, n - m)

\* insert x into s, sorted by R-value, after the elements with an equal key
RECURSIVE InsertByReach(_, _, _)
InsertByReach(Rr, s, x) ==
  IF s = << >> THEN <<x>>
  ELSE IF RAt(Rr, Last(s)) <= RAt(Rr, x) THEN Append(s, x)
  ELSE Append(InsertByReach(Rr, Front(s), x), Last(s))

\* line 72: L.sort(key=lambda x: R[x]), a stable sort
RECURSIVE SortByReach(_, _)
SortByReach(Rr, s) ==
  IF s = << >> THEN << >>
  ELSE InsertByReach(Rr, SortByReach(Rr, Front(s)), Last(s))

\* line 74: R[x] >= min_reach_ratio * R_max
GeqMinReach(v, rmax) ==
  IF rmax = Inf THEN v = Inf
  ELSE IF v = Inf THEN TRUE
  ELSE ReachDen * v >= ReachNum * rmax

\* line 74: filter(lambda x: R[x] >= min_reach_ratio * R_max, L)
FilterByReach(Rr, s) ==
  LET rmax == RAt(Rr, Last(s))
      keep(x) == GeqMinReach(RAt(Rr, x), rmax)
  IN SelectSeq(s, keep)

RECURSIVE SumOver(_, _)
SumOver(Rr, S) ==
  IF S = {} THEN 0
  ELSE LET k == CHOOSE k \in S : TRUE IN Rr[k] + SumOver(Rr, S \ {k})

\* lines 93-105: avg_reach <= significant_ratio * R[s], the average taken over
\* R[lo:hi] and 0 for an empty slice
AvgLeqSig(Rr, lo, hi, s) ==
  LET S == SliceIdx(lo, hi)
      rs == RAt(Rr, s)
  IN IF S = {} THEN TRUE
     ELSE IF \E k \in S : Rr[k] = Inf THEN rs = Inf
     ELSE IF rs = Inf THEN TRUE
     ELSE SigDen * SumOver(Rr, S) <= SigNum * rs * Cardinality(S)

\* line 117: R[s] / R[parent.split] >= similarity_ratio on float64 values
\* (x/0 is inf for x > 0; 0/0 and inf/inf are nan, which compares false)
SimilarGeq(a, b) ==
  IF b = 0 THEN a > 0
  ELSE IF b = Inf THEN FALSE
  ELSE IF a = Inf THEN TRUE
  ELSE SimDen * a >= SimNum * b

\* line 77-80: Node(left, right)
Node(left, right) ==
  [left |-> left, right |-> right, split |-> NoSplit, children |-> << >>]

\* a left child that wrongly includes the split position
ChildLeftOffByOne(nd, s) == Node(nd.left, s + 1)

\* line 89: child_left = Node(node.left, s)
ChildLeft(nd, s) == Node(nd.left, s)

\* line 90: child_right = Node(s, node.right)
ChildRight(nd, s) == Node(s, nd.right)

\* line 108: the left child is kept
KeepLeft(c, m) ==
  LET left_size == c.right - c.left
  IN left_size >= m \/ left_size = c.right

\* line 111: the right child is kept
KeepRight(c, m) ==
  LET right_size == c.right - c.left
  IN right_size >= m \/ right_size = n - c.left

\* the children taken last first
ReverseCalls(children) ==
  [k \in 1 .. Len(children) |-> children[Len(children) + 1 - k]]

\* lines 126-127: the order of the recursive calls on the kept children
CallOrder(children) == children

\* lines 83-129: one invocation cluster_tree(node, parent, L) on frame f, up to
\* its recursive calls: the new arena, the new leaf list and the calls it makes
ClusterTreeCall(f, nds, lvs, Rr, m) ==
  IF f.L = << >>
  THEN [nodes |-> nds, leaves |-> Append(lvs, f.node), calls |-> << >>]
  ELSE
    LET s == Last(f.L)
        Lr == Front(f.L)
        nd == nds[f.node]
        nds1 == [nds EXCEPT ![f.node].split = s]
        child_left == ChildLeft(nd, s)
        child_right == ChildRight(nd, s)
        isLeft(x) == x < s
        isRight(x) == x > s
        L_left == SelectSeq(Lr, isLeft)
        L_right == SelectSeq(Lr, isRight)
        significant ==
          /\ AvgLeqSig(Rr, child_left.left, child_left.right, s)
          /\ AvgLeqSig(Rr, child_right.left, child_right.right, s)
        children ==
          (IF KeepLeft(child_left, m)
             THEN <<[node |-> child_left, L |-> L_left]>> ELSE << >>)
          \o (IF KeepRight(child_right, m)
                THEN <<[node |-> child_right, L |-> L_right]>> ELSE << >>)
        base == Len(nds)
        ids == [k \in 1 .. Len(children) |-> base + k]
        nds2 == nds1 \o [k \in 1 .. Len(children) |-> children[k].node]
        merge == f.parent # 0
                   /\ SimilarGeq(RAt(Rr, s), RAt(Rr, nds1[f.parent].split))
        p == IF merge THEN f.parent ELSE f.node
        nds3 ==
          IF merge
          THEN [nds2 EXCEPT ![f.parent].children =
                              ListRemove(nds2[f.parent].children \o ids, f.node)]
          ELSE [nds2 EXCEPT ![f.node].children =
                              nds2[f.node].children \o ids]
        calls == [k \in 1 .. Len(children) |->
                   [node |-> ids[k], parent |-> p, L |-> children[k].L]]
    IN IF significant
       THEN IF children = << >>
            THEN [nodes |-> nds1, leaves |-> Append(lvs, f.node),
                  calls |-> << >>]
            ELSE [nodes |-> nds3, leaves |-> lvs, calls |-> CallOrder(calls)]
       ELSE [nodes |-> nds1, leaves |-> lvs,
             calls |-> <<[node |-> f.node, parent |-> f.parent, L |-> Lr]>>]

\* the positions xrange(leaf.left, leaf.right) of a leaf
LeafRange(nd) == nd.left .. (nd.right - 1)

SetMax(S) == CHOOSE x \in S : \A y \in S : y <= x

\* lines 134-137: the label of point p; a later leaf overwrites an earlier one
LabelOf(p, ord, nds, lvs) ==
  LET cover == {k \in 1 .. Len(lvs) :
                  \E j \in LeafRange(nds[lvs[k]]) : ord[PyIdx(j) + 1] = p}
  IN IF cover = {} THEN -1 ELSE SetMax(cover) - 1

\* lines 58-70: the reachability plot and its local maxima
FindLocalMaxima ==
  /\ pc = "ext_start"
  /\ R' = PlotOf(ordering, reachability_distances)
  /\ L' = LocalMaxima(R', min_cluster_size)
  /\ pc' = "ext_sort"
  /\ UNCHANGED <<opticsIn, opticsWork, min_cluster_size, nodes, leaves, stack,
                 labels, err, ret>>

\* lines 72-74: sort by reachability, R_max, filter
SortAndFilter ==
  /\ pc = "ext_sort"
  /\ IF L = << >> \/ \E x \in SeqRange(L) : ~IndexOK(x)
     THEN \* R[x] or L[-1] is out of range
          /\ pc' = "raised"
          /\ err' = "IndexError"
          /\ L' = L
     ELSE /\ L' = FilterByReach(R, SortByReach(R, L))
          /\ pc' = "ext_root"
          /\ err' = err
  /\ UNCHANGED <<opticsIn, opticsWork, min_cluster_size, R, nodes, leaves,
                 stack, labels, ret>>

\* lines 82, 131-132: root = Node(0, n); cluster_tree(root, None, L)
StartTree ==
  /\ pc = "ext_root"
  /\ nodes' = <<Node(0, n)>>
  /\ leaves' = << >>
  /\ stack' = <<[node |-> 1, parent |-> 0, L |-> L]>>
  /\ pc' = "ext_tree"
  /\ UNCHANGED <<opticsIn, opticsWork, min_cluster_size, R, L, labels, err,
                 ret>>

\* lines 83-129: the innermost pending invocation of cluster_tree runs
ClusterTree ==
  /\ pc = "ext_tree"
  /\ stack # << >>
  /\ LET r == ClusterTreeCall(Head(stack), nodes, leaves, R, min_cluster_size)
     IN /\ nodes' = r.nodes
        /\ leaves' = r.leaves
        /\ stack' = r.calls \o Tail(stack)
  /\ UNCHANGED <<opticsIn, opticsWork, min_cluster_size, R, L, labels, pc,
                 err, ret>>

\* lines 134-139: the labels
Labeling ==
  /\ pc = "ext_tree"
  /\ stack = << >>
  /\ IF \E k \in 1 .. Len(leaves) :
          \E j \in LeafRange(nodes[leaves[k]]) : ~IndexOK(j)
     THEN /\ pc' = "raised"
          /\ err' = "IndexError"
          /\ labels' = labels
     ELSE /\ labels' = [p \in Range0(n) |-> LabelOf(p, ordering, nodes, leaves)]
          /\ pc' = "ext_done"
          /\ err' = err
  /\ UNCHANGED <<opticsIn, opticsWork, min_cluster_size, R, L, nodes, leaves,
                 stack, ret>>

\* line 254: the four outputs; the one core distance the loop never assigned
\* (that of the last point) reads as whatever the allocation left there
Return ==
  /\ pc = "ext_done"
  /\ \E g \in GarbageVals :
       ret' = [core_distances |->
                 [j \in Range0(n) |->
                   IF core_distances[j] = Uninit THEN g ELSE core_distances[j]],
               ordering |-> ordering,
               reachability_distances |-> reachability_distances,
               labels |-> labels]
  /\ pc' = "returned"
  /\ UNCHANGED <<opticsIn, opticsWork, min_cluster_size, extWork, err>>

Next ==
  \/ Begin
  \/ OpticsLoop
  \/ AddLast
  \/ Dispatch
  \/ FindLocalMaxima
  \/ SortAndFilter
  \/ StartTree
  \/ ClusterTree
  \/ Labeling
  \/ Return

Spec == Init /\ [][Next]_vars

\* ---- hierarchical_extraction() called on its own

RVals == (0 .. MaxR) \cup {Inf}

\* the identity ordering and the reversed one
OrderingArgs(k) == {RangeList(k), [j \in 1 .. k |-> k - j]}

InitExt ==
  /\ n \in 1 .. MaxLen
  /\ ordering \in OrderingArgs(n)
  /\ reachability_distances \in [Range0(n) -> RVals]
  /\ min_cluster_size \in 0 .. MaxM
  /\ dist = << >>
  /\ eps = Inf
  /\ min_samples = 0
  /\ extraction = "hierarchical"
  /\ core_distances = << >>
  /\ seeds = << >>
  /\ i = 0
  /\ cdist_calls = 0
  /\ R = << >>
  /\ L = << >>
  /\ nodes = << >>
  /\ leaves = << >>
  /\ stack = << >>
  /\ labels = << >>
  /\ pc = "ext_start"
  /\ err = "none"
  /\ ret = << >>

NextExt ==
  \/ FindLocalMaxima
  \/ SortAndFilter
  \/ StartTree
  \/ ClusterTree
  \/ Labeling

SpecExt == InitExt /\ [][NextExt]_vars

\* ---- properties of optics()

\* ordering holds every point index of [0, n) exactly once
IsPermutation(s) ==
  /\ Len(s) = n
  /\ \A p \in Range0(n) : Cardinality({k \in 1 .. Len(s) : s[k] = p}) = 1

\* both kinds of step were taken: some processed point is a core point and
\* some processed point is not
MixedSteps ==
  /\ \E p \in Range0(n) :
       core_distances[p] # Uninit /\ core_distances[p] <= eps
  /\ \E p \in Range0(n) :
       core_distances[p] # Uninit /\ core_distances[p] > eps

\* C1: for valid input (n >= 1, min_samples < n) the ordering built by the
\* loop, and the ordering optics() returns, is a permutation of [0, n):
\* every point index appears exactly once, whatever mix of core and non-core
\* steps the loop took.
C1_OrderingIsPermutation ==
  min_samples < n =>
    /\ pc \notin {"start", "loop"} => IsPermutation(ordering)
    /\ pc = "returned" => IsPermutation(ret.ordering)

C1_Witness ==
  /\ pc = "returned"
  /\ n >= 3
  /\ MixedSteps
  /\ IsPermutation(ret.ordering)

\* C2: in an iteration of the ordering loop the reachability distance of a
\* point that is still in seeds never grows.
C2_ReachOnlyTightens ==
  [][(pc = "loop" /\ Len(seeds) > 1) =>
       \A j \in SeqRange(seeds') :
         reachability_distances'[j] <= reachability_distances[j]]_vars

\* the value at 0-based sorted rank min_samples of the distance row of p
RankDistance(p) == NpSort(DistRow(p), n)[min_samples + 1]

\* C3: when optics() returns, the core distance of every point, the last
\* point of the ordering included, is the value at sorted rank min_samples of
\* its distance row (stated for 1 <= min_samples < n, where the rank exists).
C3_CoreDistanceOfEveryPoint ==
  (pc = "returned" /\ 1 <= min_samples /\ min_samples < n) =>
    \A p \in Range0(n) : ret.core_distances[p] = RankDistance(p)

\* C6: an unregistered or non-string extraction fails before any clustering
\* work: no distance row computed, no point ordered, no distance written.
C6_ErrorBeforeAnyWork ==
  (pc = "raised" /\ err \in {"ValueError", "TypeError"}) =>
    /\ cdist_calls = 0
    /\ Len(ordering) = 0
    /\ \A p \in Range0(n) :
         core_distances[p] = Uninit /\ reachability_distances[p] = Inf

\* C7: with min_samples >= n optics() never returns normally.
C7_TooFewPointsNeverReturns ==
  min_samples >= n => pc # "returned"

\* ---- properties of hierarchical_extraction()

\* the inputs on which every window of the local-maxima detection is defined
WellFormed == min_cluster_size >= 1 /\ n >= 2 * min_cluster_size

\* the window of position k: truncated at the start for the first
\* min_cluster_size positions, at the end for the last min_cluster_size ones
WindowOf(k) ==
  (IF k < min_cluster_size THEN 0 ELSE k - min_cluster_size)
    .. (IF k >= n - min_cluster_size THEN n - 1 ELSE k + min_cluster_size)

\* k is the first-occurrence arg-max of R over its window
IsWindowArgmax(k) ==
  \A j \in WindowOf(k) : R[k] >= R[j] /\ (j < k => R[j] < R[k])

\* C8: for n >= 2*min_cluster_size a position is a candidate exactly when it
\* is the arg-max of R over its window.
C8_CandidatesAreWindowArgmax ==
  (pc = "ext_sort" /\ n >= 2 * min_cluster_size) =>
    \A k \in Range0(n) : (k \in SeqRange(L)) <=> IsWindowArgmax(k)

\* C10: for n >= 2*min_cluster_size and min_cluster_size >= 1 the candidate
\* list holds a position of the global maximum of R, and extraction does not
\* fail.
C10_GlobalMaximumIsCandidate ==
  WellFormed =>
    /\ pc # "raised"
    /\ pc = "ext_sort" =>
         \E x \in SeqRange(L) :
           IndexOK(x) /\ \A j \in Range0(n) : RAt(R, x) >= R[j]

\* the labels that name a cluster
UsedLabels == {labels[p] : p \in Range0(n)} \ {-1}

\* C4: labels has length n, every entry is -1 or a non-negative integer, and
\* the non-negative labels in use are exactly 0 .. k-1 for some k (stated for
\* 1 <= min_cluster_size <= n/2 only, where it already fails).
C4_LabelsContiguous ==
  (pc = "ext_done" /\ WellFormed) =>
    /\ DOMAIN labels = Range0(n)
    /\ \A p \in Range0(n) : labels[p] >= -1
    /\ UsedLabels = 0 .. (Cardinality(UsedLabels) - 1)

\* tree construction has finished
TreeDone == (pc = "ext_tree" /\ stack = << >>) \/ pc = "ext_done"

\* the recorded leaves whose range holds position j
LeavesAt(j) == {k \in 1 .. Len(leaves) : j \in LeafRange(nodes[leaves[k]])}

\* C5 as stated: after tree construction the leaf ranges partition [0, n),
\* every ordering position lying in exactly one of them (stated for
\* 1 <= min_cluster_size <= n/2 only, where it already fails).
C5_LeavesPartition ==
  (TreeDone /\ WellFormed) =>
    \A j \in Range0(n) : Cardinality(LeavesAt(j)) = 1

\* C5 amended: the ranges of the recorded leaves are pairwise disjoint and lie
\* in [0, n), so every ordering position lies in at most one leaf range; the
\* positions of a child dropped by the minimum-size filter lie in none.
C5_LeavesDisjoint ==
  pc \in {"ext_tree", "ext_done"} =>
    /\ \A k1, k2 \in 1 .. Len(leaves) :
         k1 # k2 =>
           LeafRange(nodes[leaves[k1]]) \cap LeafRange(nodes[leaves[k2]]) = {}
    /\ \A k \in 1 .. Len(leaves) : LeafRange(nodes[leaves[k]]) \subseteq Range0(n)

\* two non-empty leaves or more, and a position left out by a dropped child
C5_Witness ==
  /\ pc = "ext_done"
  /\ WellFormed
  /\ Cardinality({k \in 1 .. Len(leaves) :
                    LeafRange(nodes[leaves[k]]) # {}}) >= 2
  /\ \E j \in Range0(n) : LeavesAt(j) = {}

\* the leaves below node id, children visited in the order of ids
RECURSIVE DfsLeaves(_, _)
RECURSIVE DfsList(_, _)
DfsLeaves(nds, id) ==
  IF nds[id].children = << >> THEN <<id>> ELSE DfsList(nds, nds[id].children)
DfsList(nds, ids) ==
  IF ids = << >> THEN << >>
  ELSE DfsLeaves(nds, Head(ids)) \o DfsList(nds, Tail(ids))

\* node a lies before node b in the plot
Before(a, b) == a.left < b.left \/ (a.left = b.left /\ a.right <= b.right)

RECURSIVE InsertByPosition(_, _, _)
InsertByPosition(nds, s, id) ==
  IF s = << >> THEN <<id>>
  ELSE IF Before(nds[Last(s)], nds[id]) THEN Append(s, id)
  ELSE Append(InsertByPosition(nds, Front(s), id), Last(s))

RECURSIVE SortByPosition(_, _)
SortByPosition(nds, ids) ==
  IF ids = << >> THEN << >>
  ELSE InsertByPosition(nds, SortByPosition(nds, Front(ids)), Last(ids))

\* the leaves below node id, children visited from left to right in the plot
RECURSIVE DfsLeavesByPosition(_, _)
RECURSIVE DfsListByPosition(_, _)
DfsLeavesByPosition(nds, id) ==
  IF nds[id].children = << >> THEN <<id>>
  ELSE DfsListByPosition(nds, SortByPosition(nds, nds[id].children))
DfsListByPosition(nds, ids) ==
  IF ids = << >> THEN << >>
  ELSE DfsLeavesByPosition(nds, Head(ids)) \o DfsListByPosition(nds, Tail(ids))

\* C9 as stated: the leaves are recorded, and so numbered, in the order of a
\* depth-first traversal of the final tree in child-list order (stated for
\* 1 <= min_cluster_size <= n/2 only, where it already fails).
C9_IdsFollowChildListDfs ==
  (pc = "ext_done" /\ WellFormed) => leaves = DfsLeaves(nodes, 1)

\* C9 amended: for min_cluster_size <= n the leaves are recorded, and so
\* numbered, in the order of a depth-first traversal of the final tree that
\* visits the children of a node from left to right in the plot, which is not
\* the child-list order once a merge has appended children to a parent.
C9_IdsFollowPositionDfs ==
  (pc = "ext_done" /\ min_cluster_size <= n) =>
    leaves = DfsLeavesByPosition(nodes, 1)

\* a merge-into-parent step has moved the children of a left node behind its
\* right sibling in the root's child list; three non-empty leaves
C9_Witness ==
  /\ pc = "ext_done"
  /\ WellFormed
  /\ Len(leaves) >= 3
  /\ \A k \in 1 .. Len(leaves) : LeafRange(nodes[leaves[k]]) # {}
  /\ leaves # DfsLeaves(nodes, 1)
  /\ leaves = DfsLeavesByPosition(nodes, 1)

====
